---- MODULE Spec2Model ----
(***************************************************************************)
(* State-machine model of the LearnWeb page script (src/js/main.js) and of *)
(* the CourseProgress.unset operation of the script variant embedded in    *)
(* src/_articles/web-performance-optimization-guide.md.                    *)
(*                                                                         *)
(* JavaScript strings are modelled as sequences of tokens, so that         *)
(* String.prototype.startsWith, JSON.parse and JSON.stringify are computed *)
(* rather than assumed.  An optional value (getItem's null, a missing      *)
(* attribute) is None or Some(v).                                          *)
(***************************************************************************)
EXTENDS Integers, Sequences, FiniteSets, TLC

VARIABLES
    pc,             \* "loading" before init() has run, "ready" after
    localStorage,   \* the origin's store: a function from the present keys to texts
    osDark,         \* matchMedia('(prefers-color-scheme: dark)').matches
    hasMatchMedia,  \* window.matchMedia exists in this browser
    dataTheme,      \* the data-theme attribute of <html>: None or Some(text)
    path,           \* window.location.pathname
    navLinks,       \* the 'nav a' elements: [href: None or Some(pathname), current: BOOLEAN]
    lesson,         \* dataset of .lesson-content: None or Some([courseId, lessonId])
    scrollBound,    \* the scroll listener of initProgressTracking is registered
    marked,         \* the closure variable 'marked' of initProgressTracking
    ret,            \* the value returned by the last CourseProgress call
    threw,          \* the last handler ended with an uncaught exception
    last,           \* the last operation, its arguments and the value it replaced
    userChose,      \* the user has toggled the theme or called setTheme
    setCalls,       \* CourseProgress.set invocations by the scroll handler in this page view
    trail,          \* progress of a 'mark from empty, then unmark' sequence
    dom,            \* which elements the document has (fixed for a page view)
    bodyText,       \* textContent of the first '.article-body, .lesson-content'
    themeBtn,       \* .theme-toggle's aria-label/title and .theme-icon's text
    extLinks,       \* the 'a' elements with an href: [href, target, rel, sr]
    readTimeText,   \* textContent of .read-time-text: None or Some(text)
    menuBound,      \* the listeners of MobileMenu.init are registered
    keyNavBound,    \* the keydown listener of initKeyboardNav is registered
    isOpen,         \* .nav-list carries the class is-open
    ariaExpanded,   \* aria-expanded of .mobile-menu-toggle: None or Some(text)
    menuIcon,       \* text of .menu-icon: None or Some(text)
    activeElement,  \* document.activeElement: "body", "toggle", "main" or "link"
    innerWidth,     \* window.innerWidth
    readyState,     \* document.readyState: "loading", "interactive" or "complete"
    script,         \* main.js has executed; it left init as a DOMContentLoaded listener
    initRuns,       \* calls of init() in this page view
    smoothBound,    \* the click listeners of initSmoothScroll are registered
    tabindex,       \* ids of the elements carrying tabindex="-1" set by the script
    defaultPrevented \* the last click on an anchor had preventDefault() called

vars == <<pc, localStorage, osDark, hasMatchMedia, dataTheme, path, navLinks,
          lesson, scrollBound, marked, ret, threw, last, userChose, setCalls, trail,
          dom, bodyText, themeBtn, extLinks, readTimeText, menuBound, keyNavBound,
          isOpen, ariaExpanded, menuIcon, activeElement, innerWidth,
          readyState, script, initRuns, smoothBound, tabindex, defaultPrevented>>

----------------------------------------------------------------------------
(* Bounds and program constants *)

Threshold == 100
InnerHeight == 50
ScrollHeight == 400
MaxCalls == 2
MaxMalformed == 1
MaxLinks == 2
Breakpoint == 768
wordsPerMinute == 200
NarrowWidth == 375
MaxWords == 3

CourseIds == {"ux", "seo"}
LessonIds == {"l1", "l2"}

None == <<>>
Some(v) == <<v>>

Light == <<"light">>
Dark == <<"dark">>
Blue == <<"blue">>
EmptyText == <<>>

STORAGE_KEY == <<"learnweb_theme">>
ProgressKey(courseId) == <<"learnweb_progress_", courseId>>

----------------------------------------------------------------------------
(* localStorage *)

getItem(ls, key) == IF key \in DOMAIN ls THEN Some(ls[key]) ELSE None

\* setItem that stores nothing
setItem_Drop(ls, key, text) == ls

\* setItem that drops every other entry
setItem_Alone(ls, key, text) == [k \in {key} |-> text]

setItem(ls, key, text) ==
    [k \in DOMAIN ls \cup {key} |-> IF k = key THEN text ELSE ls[k]]

\* JavaScript truthiness of a getItem result: null and "" are falsy
Truthy(opt) == opt # None /\ opt # Some(EmptyText)

----------------------------------------------------------------------------
(* ThemeManager *)

OsTheme(dark) == IF dark THEN Dark ELSE Light

\* getTheme without the system-preference step
ThemeManager_getTheme_IgnoreOs(ls, mm, dark) ==
    LET stored == getItem(ls, STORAGE_KEY) IN
    IF Truthy(stored) THEN stored[1] ELSE Light

ThemeManager_getTheme(ls, mm, dark) ==
    LET stored == getItem(ls, STORAGE_KEY) IN
    IF Truthy(stored) THEN stored[1]
    ELSE IF mm /\ dark THEN Dark
    ELSE Light

\* setTheme that persists a light theme whatever it displays
ThemeManager_setTheme_StoreLight(ls, theme) ==
    [attr |-> Some(theme), ls |-> setItem(ls, STORAGE_KEY, Light)]

\* setTheme: the attribute, then the store ([attr, ls] after the call)
ThemeManager_setTheme(ls, theme) ==
    [attr |-> Some(theme), ls |-> setItem(ls, STORAGE_KEY, theme)]

ThemeManager_toggle(ls, mm, dark) ==
    LET currentTheme == ThemeManager_getTheme(ls, mm, dark)
        newTheme == IF currentTheme = Light THEN Dark ELSE Light
    IN ThemeManager_setTheme(ls, newTheme)

\* the listener without the test of line 293
onSchemeChange_Unguarded(ls, attr, matches) ==
    ThemeManager_setTheme(ls, IF matches THEN Dark ELSE Light)

\* the 'change' listener of the colour-scheme media query
onSchemeChange(ls, attr, matches) ==
    IF ~Truthy(getItem(ls, STORAGE_KEY))
    THEN ThemeManager_setTheme(ls, IF matches THEN Dark ELSE Light)
    ELSE [attr |-> attr, ls |-> ls]

SwitchToLight == <<"Switch to light mode">>
SwitchToDark == <<"Switch to dark mode">>
LightModeIcon == <<"light_mode">>
DarkModeIcon == <<"dark_mode">>

\* the button as the markup ships it, before any script has run
MarkupLabel == <<"Toggle theme">>
MarkupButton(d) ==
    [label |-> IF d.themeToggle THEN Some(MarkupLabel) ELSE None,
     icon |-> IF d.themeIcon THEN Some(DarkModeIcon) ELSE None]

\* updateToggleButton with the two branches exchanged
updateToggleButton_Current(btn, d, theme) ==
    IF ~d.themeToggle \/ ~d.themeIcon THEN btn
    ELSE IF theme = Dark
         THEN [label |-> Some(SwitchToDark), icon |-> Some(DarkModeIcon)]
         ELSE [label |-> Some(SwitchToLight), icon |-> Some(LightModeIcon)]

\* updateToggleButton(theme), which setTheme calls last: btn is [label, icon]
updateToggleButton(btn, d, theme) ==
    IF ~d.themeToggle \/ ~d.themeIcon THEN btn
    ELSE IF theme = Dark
         THEN [label |-> Some(SwitchToLight), icon |-> Some(LightModeIcon)]
         ELSE [label |-> Some(SwitchToDark), icon |-> Some(DarkModeIcon)]

----------------------------------------------------------------------------
(* JSON: texts are token sequences; values are [t, items] records *)

JUndefined == [t |-> "undefined", items |-> <<>>]
JNull == [t |-> "null", items |-> <<>>]
JNumber == [t |-> "number", items |-> <<>>]
JArray(s) == [t |-> "array", items |-> s]
JBool(b) == [t |-> IF b THEN "true" ELSE "false", items |-> <<>>]
\* an object: has = it has a 'lessons' property, whose value is val
JObject(has, val) == [t |-> "object", has |-> has, val |-> val]

NotJsonText == <<"oops">>
NullText == <<"null">>
EmptyObjectText == <<"{", "}">>
LessonsNumberText == <<"{", "lessons", ":", "5", "}">>

RECURSIVE Commas(_)
Commas(s) ==
    IF s = <<>> THEN <<>>
    ELSE IF Len(s) = 1 THEN s
    ELSE <<s[1], ",">> \o Commas(Tail(s))

\* JSON.stringify of { lessons: [ ... ] }
JSONstringify(items) ==
    <<"{", "lessons", ":", "[">> \o Commas(items) \o <<"]", "}">>

SyntaxError == [ok |-> FALSE, v |-> JUndefined]

\* the elements of a non-empty array body: id ("," id)*
RECURSIVE ParseItems(_)
ParseItems(t) ==
    IF t = <<>> THEN [ok |-> FALSE, items |-> <<>>]
    ELSE IF t[1] \notin LessonIds THEN [ok |-> FALSE, items |-> <<>>]
    ELSE IF Len(t) = 1 THEN [ok |-> TRUE, items |-> <<t[1]>>]
    ELSE IF Len(t) = 2 \/ t[2] # "," THEN [ok |-> FALSE, items |-> <<>>]
    ELSE LET r == ParseItems(SubSeq(t, 3, Len(t)))
         IN [ok |-> r.ok, items |-> IF r.ok THEN <<t[1]>> \o r.items ELSE <<>>]

\* a value that may stand after "lessons": a number or an array of lesson ids
ParseValue(t) ==
    IF t = <<"5">> THEN [ok |-> TRUE, v |-> JNumber]
    ELSE IF t = <<"null">> THEN [ok |-> TRUE, v |-> JNull]
    ELSE IF t = <<"[", "]">> THEN [ok |-> TRUE, v |-> JArray(<<>>)]
    ELSE IF Len(t) >= 3 /\ t[1] = "[" /\ t[Len(t)] = "]"
    THEN LET r == ParseItems(SubSeq(t, 2, Len(t) - 1))
         IN IF r.ok THEN [ok |-> TRUE, v |-> JArray(r.items)] ELSE SyntaxError
    ELSE SyntaxError

\* a parser that reads every text as null
JSONparse_Null(t) == [ok |-> TRUE, v |-> JNull]

\* JSON.parse: [ok |-> FALSE] stands for the SyntaxError it throws
JSONparse(t) ==
    IF t = <<"{", "}">> THEN [ok |-> TRUE, v |-> JObject(FALSE, JUndefined)]
    ELSE IF Len(t) >= 5 /\ t[1] = "{" /\ t[2] = "lessons" /\ t[3] = ":" /\ t[Len(t)] = "}"
    THEN LET r == ParseValue(SubSeq(t, 4, Len(t) - 1))
         IN IF r.ok THEN [ok |-> TRUE, v |-> JObject(TRUE, r.v)] ELSE SyntaxError
    ELSE ParseValue(t)

\* evaluating 'progress.lessons' raises a TypeError when progress is null
LessonsThrows(p) == p.t = "null"
\* the value of 'progress.lessons' (undefined on a value without the property)
LessonsOf(p) == IF p.t = "object" /\ p.has THEN p.val ELSE JUndefined
\* calling .includes / .filter / .push on v raises a TypeError unless v is an array
NotArray(v) == v.t # "array"

Includes(items, x) == \E i \in 1..Len(items) : items[i] = x

RECURSIVE Filter(_, _)
Filter(items, x) ==
    IF items = <<>> THEN <<>>
    ELSE IF items[1] # x THEN <<items[1]>> \o Filter(Tail(items), x)
    ELSE Filter(Tail(items), x)

----------------------------------------------------------------------------
(* CourseProgress: each operation yields the store after it, the value it
   returns and whether it ended with an uncaught exception *)

Outcome(ls, r, ex) == [ls |-> ls, ret |-> r, threw |-> ex]

CourseProgress_get(ls, courseId, lessonId) ==
    LET data == getItem(ls, ProgressKey(courseId)) IN
    IF ~Truthy(data) THEN Outcome(ls, JBool(FALSE), FALSE)
    ELSE LET parsed == JSONparse(data[1]) IN
         IF ~parsed.ok \/ LessonsThrows(parsed.v)
         THEN Outcome(ls, JBool(FALSE), FALSE)                 \* catch (e)
         ELSE LET lessons == LessonsOf(parsed.v) IN
              IF lessons.t \in {"undefined", "null"}
              THEN Outcome(ls, lessons, FALSE)                 \* falsy && ...
              ELSE IF NotArray(lessons)
              THEN Outcome(ls, JBool(FALSE), FALSE)            \* catch (e)
              ELSE Outcome(ls, JBool(Includes(lessons.items, lessonId)), FALSE)

\* set without the membership test of line 153
CourseProgress_set_AlwaysPush(ls, courseId, lessonId) ==
    LET key == ProgressKey(courseId)
        existing == getItem(ls, key)
        parsed == IF Truthy(existing) THEN JSONparse(existing[1]) ELSE SyntaxError
        progress == IF parsed.ok THEN parsed.v ELSE JObject(TRUE, JArray(<<>>))
    IN IF LessonsThrows(progress) \/ NotArray(LessonsOf(progress))
       THEN Outcome(ls, JUndefined, TRUE)
       ELSE Outcome(setItem(ls, key,
                        JSONstringify(Append(LessonsOf(progress).items, lessonId))),
                    JUndefined, FALSE)

\* set that starts from the default record whatever is stored
CourseProgress_set_Fresh(ls, courseId, lessonId) ==
    Outcome(setItem(ls, ProgressKey(courseId), JSONstringify(<<lessonId>>)),
            JUndefined, FALSE)

\* set that writes the record back although the lesson is in it
CourseProgress_set_Twice(ls, courseId, lessonId) ==
    LET key == ProgressKey(courseId)
        existing == getItem(ls, key)
        parsed == IF Truthy(existing) THEN JSONparse(existing[1]) ELSE SyntaxError
        progress == IF parsed.ok THEN parsed.v ELSE JObject(TRUE, JArray(<<>>))
    IN IF LessonsThrows(progress) \/ NotArray(LessonsOf(progress))
       THEN Outcome(ls, JUndefined, TRUE)
       ELSE Outcome(setItem(ls, key,
                        JSONstringify(Append(Filter(LessonsOf(progress).items, lessonId),
                                             lessonId))),
                    JUndefined, FALSE)

CourseProgress_set(ls, courseId, lessonId) ==
    LET key == ProgressKey(courseId)
        existing == getItem(ls, key)
        parsed == IF Truthy(existing) THEN JSONparse(existing[1]) ELSE SyntaxError
        \* the default { lessons: [] } stays when there is no text or parsing throws
        progress == IF parsed.ok THEN parsed.v ELSE JObject(TRUE, JArray(<<>>))
    IN \* progress.lessons.includes(...) is outside the try block
       IF LessonsThrows(progress) \/ NotArray(LessonsOf(progress))
       THEN Outcome(ls, JUndefined, TRUE)
       ELSE IF ~Includes(LessonsOf(progress).items, lessonId)
       THEN Outcome(setItem(ls, key,
                        JSONstringify(Append(LessonsOf(progress).items, lessonId))),
                    JUndefined, FALSE)
       ELSE Outcome(ls, JUndefined, FALSE)

\* unset whose filter keeps everything
CourseProgress_unset_KeepAll(ls, courseId, lessonId) ==
    LET key == ProgressKey(courseId)
        existing == getItem(ls, key)
    IN IF ~Truthy(existing) THEN Outcome(ls, JUndefined, FALSE)
       ELSE LET parsed == JSONparse(existing[1]) IN
            IF ~parsed.ok \/ LessonsThrows(parsed.v) \/ NotArray(LessonsOf(parsed.v))
            THEN Outcome(ls, JUndefined, FALSE)
            ELSE Outcome(setItem(ls, key, JSONstringify(LessonsOf(parsed.v).items)),
                         JUndefined, FALSE)

CourseProgress_unset(ls, courseId, lessonId) ==
    LET key == ProgressKey(courseId)
        existing == getItem(ls, key)
    IN IF ~Truthy(existing) THEN Outcome(ls, JUndefined, FALSE)
       ELSE LET parsed == JSONparse(existing[1]) IN
            IF ~parsed.ok \/ LessonsThrows(parsed.v) \/ NotArray(LessonsOf(parsed.v))
            THEN Outcome(ls, JUndefined, FALSE)                \* catch (e): ignore
            ELSE Outcome(setItem(ls, key,
                             JSONstringify(Filter(LessonsOf(parsed.v).items, lessonId))),
                         JUndefined, FALSE)

\* getAll that stores the default record where there is none
CourseProgress_getAll_Creates(ls, courseId) ==
    Outcome(setItem(ls, ProgressKey(courseId), JSONstringify(<<>>)), JArray(<<>>), FALSE)

CourseProgress_getAll(ls, courseId) ==
    LET data == getItem(ls, ProgressKey(courseId)) IN
    IF ~Truthy(data) THEN Outcome(ls, JArray(<<>>), FALSE)
    ELSE LET parsed == JSONparse(data[1]) IN
         IF ~parsed.ok \/ LessonsThrows(parsed.v)
         THEN Outcome(ls, JArray(<<>>), FALSE)                 \* catch (e)
         ELSE LET lessons == LessonsOf(parsed.v) IN
              IF lessons.t \in {"undefined", "null"}
              THEN Outcome(ls, JArray(<<>>), FALSE)            \* falsy || []
              ELSE Outcome(ls, lessons, FALSE)

----------------------------------------------------------------------------
(* initProgressTracking *)

\* the listener is registered when .lesson-content carries both identifiers
TracksProgress(container) ==
    /\ container # None
    /\ container[1].courseId # ""
    /\ container[1].lessonId # ""

AtBottom(scrollY) == scrollY + InnerHeight >= ScrollHeight - Threshold

\* the scroll listener: [ls, marked, threw, called] after one scroll event
onScroll(ls, isMarked, container, scrollY) ==
    IF isMarked
    THEN [ls |-> ls, marked |-> TRUE, threw |-> FALSE, called |-> FALSE]
    ELSE IF AtBottom(scrollY)
    THEN LET r == CourseProgress_set(ls, container[1].courseId, container[1].lessonId)
         IN [ls |-> r.ls, marked |-> ~r.threw, threw |-> r.threw, called |-> TRUE]
    ELSE [ls |-> ls, marked |-> FALSE, threw |-> FALSE, called |-> FALSE]

----------------------------------------------------------------------------
(* updateNavigation *)

startsWith(s, prefix) ==
    Len(prefix) <= Len(s) /\ SubSeq(s, 1, Len(prefix)) = prefix

Root == <<"/">>

IsCurrent(linkPath, currentPath) ==
    \/ linkPath = currentPath
    \/ startsWith(currentPath, linkPath) /\ linkPath # Root

\* forEach from link i on; new URL(link.href) throws on an anchor without href
RECURSIVE UpdateFrom(_, _, _)
UpdateFrom(links, currentPath, i) ==
    IF i > Len(links) THEN [links |-> links, threw |-> FALSE]
    ELSE IF links[i].href = None THEN [links |-> links, threw |-> TRUE]
    ELSE UpdateFrom([links EXCEPT ![i].current = IsCurrent(links[i].href[1], currentPath)],
                    currentPath, i + 1)

\* a highlighter that toggles the marker of each matching link
updateNavigation_Toggle(links, currentPath) ==
    [links |-> [i \in 1..Len(links) |->
                  IF links[i].href # None /\ IsCurrent(links[i].href[1], currentPath)
                  THEN [links[i] EXCEPT !.current = ~@]
                  ELSE links[i]],
     threw |-> FALSE]

updateNavigation(links, currentPath) == UpdateFrom(links, currentPath, 1)

----------------------------------------------------------------------------
(* MobileMenu: m is [isOpen, ariaExpanded, menuIcon] *)

MenuState(open, expanded, icon) ==
    [isOpen |-> open, ariaExpanded |-> expanded, menuIcon |-> icon]

MobileMenu_isOpen(d, m) == d.navList /\ m.isOpen

\* open() without the test of .menu-icon
MobileMenu_open_NoIconTest(d, m) ==
    IF ~d.menuToggle \/ ~d.navList THEN m
    ELSE MenuState(TRUE, Some(<<"true">>), m.menuIcon)

\* open() that leaves aria-expanded as it is
MobileMenu_open_KeepAria(d, m) ==
    IF ~d.menuToggle \/ ~d.navList \/ ~d.menuIcon THEN m
    ELSE MenuState(TRUE, m.ariaExpanded, Some(<<"close">>))

MobileMenu_open(d, m) ==
    IF ~d.menuToggle \/ ~d.navList \/ ~d.menuIcon THEN m
    ELSE MenuState(TRUE, Some(<<"true">>), Some(<<"close">>))

\* close() that leaves the class on the list
MobileMenu_close_KeepClass(d, m) ==
    IF ~d.menuToggle \/ ~d.navList \/ ~d.menuIcon THEN m
    ELSE MenuState(m.isOpen, Some(<<"false">>), Some(<<"menu">>))

MobileMenu_close(d, m) ==
    IF ~d.menuToggle \/ ~d.navList \/ ~d.menuIcon THEN m
    ELSE MenuState(FALSE, Some(<<"false">>), Some(<<"menu">>))

MobileMenu_toggle(d, m) ==
    IF MobileMenu_isOpen(d, m) THEN MobileMenu_close(d, m) ELSE MobileMenu_open(d, m)

KeyNames == {"Escape", "Tab"}

\* the keydown listener of MobileMenu.init: [m, focus] after it
onMenuKeydown(d, m, focus, key) ==
    IF key = "Escape" /\ MobileMenu_isOpen(d, m)
    THEN [m |-> MobileMenu_close(d, m), focus |-> "toggle"]
    ELSE [m |-> m, focus |-> focus]

\* the keydown listener of initKeyboardNav: the focus after it.  focus() on an
\* element that is not focusable leaves document.activeElement as it is.
onKeyNavKeydown(d, focus, key) ==
    IF key = "Escape" /\ d.mainContent # "absent"
    THEN IF d.mainContent = "focusable" THEN "main" ELSE focus
    ELSE focus

ClickTargets == {"toggle", "menu", "outside"}

\* the document click listener without the test toggleBtn.contains(e.target)
onDocumentClick_IgnoreToggle(d, m, target) ==
    IF MobileMenu_isOpen(d, m) /\ target # "menu" THEN MobileMenu_close(d, m) ELSE m

\* the document click listener without the test menuList.contains(e.target)
onDocumentClick_IgnoreMenu(d, m, target) ==
    IF MobileMenu_isOpen(d, m) /\ target # "toggle" THEN MobileMenu_close(d, m) ELSE m

\* the document click listener of MobileMenu.init
onDocumentClick(d, m, target) ==
    IF MobileMenu_isOpen(d, m) /\ target # "toggle" /\ target # "menu"
    THEN MobileMenu_close(d, m)
    ELSE m

\* the resize listener with the breakpoint itself counted as desktop
onResize_AtBreakpoint(d, m, width) ==
    IF width >= Breakpoint /\ MobileMenu_isOpen(d, m) THEN MobileMenu_close(d, m) ELSE m

\* the resize listener of MobileMenu.init
onResize(d, m, width) ==
    IF width > Breakpoint /\ MobileMenu_isOpen(d, m) THEN MobileMenu_close(d, m) ELSE m

----------------------------------------------------------------------------
(* initExternalLinks: an href is a token sequence, its scheme spelt in letters *)

Host == "learnweb.test"
OtherHost == "other.test"

Http == <<"h", "t", "t", "p">>

\* new URL(link.href).hostname: the authority after "//", else the page's host
hostname(href) ==
    LET at == {i \in 1..Len(href) - 1 : href[i] = "//" /\ (i = 1 \/ href[i - 1] = ":")}
    IN IF at = {} THEN Host ELSE href[CHOOSE i \in at : \A j \in at : i <= j]

OpensInNewTab == <<" (opens in new tab)">>

Anchor(href) == [href |-> href, target |-> None, rel |-> None, sr |-> <<>>]

\* the forEach body of initExternalLinks, guarded by the selector a[href^="http"]
AnnotateLink(link) ==
    IF startsWith(link.href, Http) /\ hostname(link.href) # Host
    THEN [link EXCEPT !.sr = Append(@, OpensInNewTab),
                      !.target = Some(<<"_blank">>),
                      !.rel = Some(<<"noopener noreferrer">>)]
    ELSE link

initExternalLinks(links) == [i \in 1..Len(links) |-> AnnotateLink(links[i])]

----------------------------------------------------------------------------
(* calculateReadTime: a text is a sequence of characters, "w" or whitespace *)

Whitespace == {" ", "\n"}

\* String.prototype.trim
trim(text) ==
    LET ink == {i \in 1..Len(text) : text[i] \notin Whitespace}
    IN IF ink = {} THEN <<>>
       ELSE SubSeq(text, CHOOSE i \in ink : \A j \in ink : i <= j,
                         CHOOSE i \in ink : \A j \in ink : j <= i)

\* text.split(/\s+/).length: one piece more than there are maximal runs of
\* whitespace, so the empty text gives the one piece ""
splitLength(text) ==
    1 + Cardinality({i \in 1..Len(text) :
                        /\ text[i] \in Whitespace
                        /\ (i = 1 \/ text[i - 1] \notin Whitespace)})

\* Math.ceil(a / b) for a >= 0, b > 0
ceil(a, b) == IF a % b = 0 THEN a \div b ELSE a \div b + 1

readingTime(text) == ceil(splitLength(trim(text)), wordsPerMinute)

MinRead(n) == <<n, " min read">>

\* calculateReadTime: the text of .read-time-text after it.  Every
\* [data-read-time] element computes the same value from the first content
\* element; an element without .read-time-text is left alone.
calculateReadTime(d, body, shown) ==
    IF d.readTime = "absent" \/ body = None THEN shown
    ELSE IF d.readTime = "text" THEN Some(MinRead(readingTime(body[1])))
    ELSE shown

----------------------------------------------------------------------------
(* Pages and initial states *)

PathA == <<"/", "a">>
PathAB == <<"/", "a", "/", "b">>
PathAX == <<"/", "a", "x">>

Link(href, current) == [href |-> href, current |-> current]
Container(courseId, lessonId) == Some([courseId |-> courseId, lessonId |-> lessonId])

Dom(themeToggle, themeIcon, menuToggle, navList, menuIconEl, mainContent, readTime) ==
    [themeToggle |-> themeToggle, themeIcon |-> themeIcon,
     menuToggle |-> menuToggle, navList |-> navList, menuIcon |-> menuIconEl,
     mainContent |-> mainContent, readTime |-> readTime]

\* #main-content: missing, present, or present and focusable (it has a tabindex)
MainContents == {"absent", "plain", "focusable"}

\* [data-read-time]: missing, present without .read-time-text, or with it
ReadTimes == {"absent", "bare", "text"}

\* n words separated by single spaces
Words(n) ==
    IF n = 0 THEN <<>> ELSE [i \in 1..(2 * n - 1) |-> IF i % 2 = 1 THEN "w" ELSE " "]

HttpsOther == Http \o <<"s", ":", "//", OtherHost, "/">>
HttpOther == Http \o <<":", "//", OtherHost, "/">>
HttpsSelf == Http \o <<"s", ":", "//", Host, "/", "a">>
RelativeHttp == Http \o <<"d", "/", "x">>
RelativePath == <<"/", "a">>

\* the documents a page view may load: location, 'nav a' markup, lesson
\* container, element inventory, content text and the anchors outside nav
Pages ==
    { [path |-> Root, nav |-> <<Link(Some(Root), FALSE), Link(Some(PathA), TRUE)>>,
       lesson |-> None,
       dom |-> Dom(TRUE, TRUE, TRUE, TRUE, TRUE, "focusable", "absent"),
       text |-> None,
       links |-> <<Anchor(HttpsOther), Anchor(HttpsSelf)>>],
      [path |-> PathAB, nav |-> <<Link(Some(Root), FALSE), Link(Some(PathA), FALSE)>>,
       lesson |-> Container("ux", "l1"),
       dom |-> Dom(TRUE, TRUE, TRUE, TRUE, TRUE, "plain", "text"),
       text |-> Some(Words(2)),
       links |-> <<Anchor(RelativeHttp), Anchor(HttpOther)>>],
      [path |-> PathAX, nav |-> <<Link(None, FALSE), Link(Some(Root), TRUE)>>,
       lesson |-> Container("seo", "l1"),
       dom |-> Dom(TRUE, FALSE, TRUE, TRUE, FALSE, "plain", "text"),
       text |-> Some(Words(1)),
       links |-> <<Anchor(HttpsOther)>>],
      [path |-> PathA, nav |-> <<>>, lesson |-> Container("seo", ""),
       dom |-> Dom(FALSE, FALSE, FALSE, FALSE, FALSE, "absent", "bare"),
       text |-> Some(<<>>),
       links |-> <<Anchor(RelativePath)>>] }

Keys == {STORAGE_KEY} \cup {ProgressKey(c) : c \in CourseIds}

\* what a profile may hold when a page is opened
ThemeOptions == {None, Some(EmptyText), Some(Light), Some(Dark), Some(Blue)}
ProgressOptions ==
    {None, Some(EmptyText), Some(NotJsonText), Some(NullText), Some(EmptyObjectText),
     Some(LessonsNumberText), Some(JSONstringify(<<>>)), Some(JSONstringify(<<"l1">>))}

Store(opts) == [k \in {x \in DOMAIN opts : opts[x] # None} |-> opts[k][1]]

\* the entries no run of this script writes
Malformed ==
    {Some(EmptyText), Some(Blue), Some(NotJsonText), Some(NullText),
     Some(EmptyObjectText), Some(LessonsNumberText)}

\* the profiles a page may be opened in: at most MaxMalformed entries are malformed
InitStorages ==
    { Store(o) : o \in { f \in [Keys -> ThemeOptions \cup ProgressOptions] :
                           /\ f[STORAGE_KEY] \in ThemeOptions
                           /\ \A c \in CourseIds : f[ProgressKey(c)] \in ProgressOptions
                           /\ Cardinality({k \in Keys : f[k] \in Malformed})
                                 <= MaxMalformed } }

EmptyStorage == Store([k \in Keys |-> None])

Op(op, c, l, arg, pre) == [op |-> op, c |-> c, l |-> l, arg |-> arg, pre |-> pre]
NoOp == Op("none", "", "", <<>>, None)

ScrollYs ==
    { ScrollHeight - Threshold - InnerHeight - 1,
      ScrollHeight - Threshold - InnerHeight,
      ScrollHeight - InnerHeight }

NotExecuted == [executed |-> FALSE, listening |-> FALSE]

Transient ==
    /\ pc = "loading"
    /\ dataTheme = None
    /\ scrollBound = FALSE
    /\ marked = FALSE
    /\ ret = JUndefined
    /\ threw = FALSE
    /\ last = NoOp
    /\ userChose = FALSE
    /\ setCalls = 0
    /\ trail = <<>>
    /\ readTimeText = None
    /\ menuBound = FALSE
    /\ keyNavBound = FALSE
    /\ isOpen = FALSE
    /\ activeElement = "body"
    /\ script = NotExecuted
    /\ initRuns = 0
    /\ smoothBound = FALSE
    /\ tabindex = {}
    /\ defaultPrevented = FALSE

\* the menu as the markup ships it: closed, aria-expanded="false", icon 'menu'
MarkupMenu(d) ==
    MenuState(FALSE,
              IF d.menuToggle THEN Some(<<"false">>) ELSE None,
              IF d.menuIcon THEN Some(<<"menu">>) ELSE None)

\* the document of a page before its script has run
Loaded(page) ==
    /\ path = page.path
    /\ navLinks = page.nav
    /\ lesson = page.lesson
    /\ dom = page.dom
    /\ bodyText = page.text
    /\ extLinks = page.links
    /\ themeBtn = MarkupButton(page.dom)
    /\ ariaExpanded = MarkupMenu(page.dom).ariaExpanded
    /\ menuIcon = MarkupMenu(page.dom).menuIcon

\* a page of the site opened in some profile, before main.js executes
Opened ==
    /\ Transient
    /\ localStorage \in InitStorages
    /\ hasMatchMedia \in BOOLEAN
    /\ osDark \in (IF hasMatchMedia THEN BOOLEAN ELSE {FALSE})
    /\ innerWidth = NarrowWidth
    /\ \E page \in Pages : Loaded(page)

\* main.js executing after the document has been loaded
Init == Opened /\ readyState = "complete"

\* a profile that has never stored anything
InitFresh == Init /\ localStorage = EmptyStorage

----------------------------------------------------------------------------
(* Actions *)

DocFrame == <<dom, bodyText, extLinks, readTimeText>>

MenuFrame == <<menuBound, keyNavBound, isOpen, ariaExpanded, menuIcon, activeElement,
               innerWidth>>

LoadFrame == <<readyState, script, initRuns>>

AnchorFrame == <<smoothBound, tabindex, defaultPrevented>>

\* everything but document.readyState and the script's own execution
PageState == <<pc, localStorage, osDark, hasMatchMedia, dataTheme, path, navLinks,
               lesson, scrollBound, marked, ret, threw, last, userChose, setCalls, trail,
               dom, bodyText, themeBtn, extLinks, readTimeText, MenuFrame, initRuns,
               AnchorFrame>>

\* the last statement of main.js: init is called now unless the document is
\* still loading, and then it is left as a DOMContentLoaded listener
Dispatch_Both(state) == [now |-> TRUE, listen |-> TRUE]

Dispatch(state) == [now |-> state # "loading", listen |-> state = "loading"]

\* init(): ThemeManager.init, MobileMenu.init, updateNavigation,
\* initSmoothScroll, initExternalLinks, initKeyboardNav, initProgressTracking,
\* calculateReadTime, in that order; an exception in updateNavigation ends
\* init() before the initializers that follow it
init ==
    /\ LET theme == ThemeManager_getTheme(localStorage, hasMatchMedia, osDark)
           t == ThemeManager_setTheme(localStorage, theme)
           nav == updateNavigation(navLinks, path)
       IN /\ dataTheme' = t.attr
          /\ localStorage' = t.ls
          /\ themeBtn' = updateToggleButton(themeBtn, dom, theme)
          /\ menuBound' = (dom.menuToggle /\ dom.navList)
          /\ navLinks' = nav.links
          /\ threw' = nav.threw
          /\ smoothBound' = ~nav.threw
          /\ extLinks' = IF nav.threw THEN extLinks ELSE initExternalLinks(extLinks)
          /\ keyNavBound' = ~nav.threw
          /\ scrollBound' = (~nav.threw /\ TracksProgress(lesson))
          /\ readTimeText' = IF nav.threw THEN readTimeText
                             ELSE calculateReadTime(dom, bodyText, readTimeText)
    /\ pc' = "ready"
    /\ marked' = FALSE
    /\ setCalls' = 0
    /\ ret' = JUndefined
    /\ trail' = <<>>
    /\ last' = Op("init", "", "", <<>>, getItem(localStorage, STORAGE_KEY))
    /\ initRuns' = initRuns + 1
    /\ UNCHANGED <<osDark, hasMatchMedia, path, lesson, userChose, dom, bodyText,
                   isOpen, ariaExpanded, menuIcon, activeElement, innerWidth,
                   tabindex, defaultPrevented>>

\* main.js executes, once per page load
ExecuteScript ==
    /\ ~script.executed
    /\ LET d == Dispatch(readyState)
       IN /\ script' = [executed |-> TRUE, listening |-> d.listen]
          /\ IF d.now THEN init ELSE UNCHANGED PageState
    /\ UNCHANGED readyState

\* main.js executing in a page view that has not been initialised
PageInit ==
    /\ pc = "loading"
    /\ ExecuteScript

\* the user leaves for another document: the store stays, the page state goes
Navigate ==
    /\ pc = "ready"
    /\ \E page \in Pages :
          /\ path' = page.path
          /\ navLinks' = page.nav
          /\ lesson' = page.lesson
          /\ dom' = page.dom
          /\ bodyText' = page.text
          /\ extLinks' = page.links
          /\ themeBtn' = MarkupButton(page.dom)
          /\ ariaExpanded' = MarkupMenu(page.dom).ariaExpanded
          /\ menuIcon' = MarkupMenu(page.dom).menuIcon
    /\ pc' = "loading"
    /\ dataTheme' = None
    /\ scrollBound' = FALSE
    /\ marked' = FALSE
    /\ setCalls' = 0
    /\ ret' = JUndefined
    /\ threw' = FALSE
    /\ trail' = <<>>
    /\ readTimeText' = None
    /\ menuBound' = FALSE
    /\ keyNavBound' = FALSE
    /\ isOpen' = FALSE
    /\ activeElement' = "body"
    /\ script' = NotExecuted
    /\ initRuns' = 0
    /\ smoothBound' = FALSE
    /\ tabindex' = {}
    /\ defaultPrevented' = FALSE
    /\ last' = Op("navigate", "", "", <<>>, None)
    /\ UNCHANGED <<localStorage, osDark, hasMatchMedia, userChose, innerWidth, readyState>>

ProgressFrame == <<path, navLinks, lesson, scrollBound, marked, setCalls>>

\* a click on .theme-toggle, or LearnWeb.ThemeManager.toggle()
Toggle ==
    /\ pc = "ready"
    /\ LET t == ThemeManager_toggle(localStorage, hasMatchMedia, osDark)
       IN /\ dataTheme' = t.attr /\ localStorage' = t.ls
          /\ themeBtn' = updateToggleButton(themeBtn, dom, t.attr[1])
    /\ userChose' = TRUE
    /\ ret' = JUndefined /\ threw' = FALSE /\ trail' = <<>>
    /\ last' = Op("toggle", "", "", <<>>, getItem(localStorage, STORAGE_KEY))
    /\ UNCHANGED <<pc, osDark, hasMatchMedia, ProgressFrame, DocFrame, MenuFrame,
                   LoadFrame, AnchorFrame>>

\* LearnWeb.ThemeManager.setTheme(theme)
SetTheme ==
    /\ pc = "ready"
    /\ \E theme \in {Light, Dark} :
          /\ LET t == ThemeManager_setTheme(localStorage, theme)
             IN dataTheme' = t.attr /\ localStorage' = t.ls
          /\ themeBtn' = updateToggleButton(themeBtn, dom, theme)
          /\ last' = Op("setTheme", "", "", theme, getItem(localStorage, STORAGE_KEY))
    /\ userChose' = TRUE
    /\ ret' = JUndefined /\ threw' = FALSE /\ trail' = <<>>
    /\ UNCHANGED <<pc, osDark, hasMatchMedia, ProgressFrame, DocFrame, MenuFrame,
                   LoadFrame, AnchorFrame>>

\* the media query (prefers-color-scheme: dark) changes its result; its 'change'
\* listener exists once ThemeManager.init has run.  Without matchMedia the
\* script cannot observe the preference, which then stays out of the state.
OsChange ==
    /\ hasMatchMedia
    /\ osDark' = ~osDark
    /\ IF pc = "ready"
       THEN LET t == onSchemeChange(localStorage, dataTheme, osDark')
            IN /\ dataTheme' = t.attr /\ localStorage' = t.ls
               /\ themeBtn' = IF Truthy(getItem(localStorage, STORAGE_KEY))
                              THEN themeBtn
                              ELSE updateToggleButton(themeBtn, dom, t.attr[1])
       ELSE UNCHANGED <<dataTheme, localStorage, themeBtn>>
    /\ ret' = JUndefined /\ threw' = FALSE /\ trail' = <<>>
    /\ last' = Op("osChange", "", "", osDark', getItem(localStorage, STORAGE_KEY))
    /\ UNCHANGED <<pc, hasMatchMedia, userChose, ProgressFrame, DocFrame, MenuFrame,
                   LoadFrame, AnchorFrame>>

ThemeFrame == <<pc, osDark, hasMatchMedia, dataTheme, userChose, themeBtn>>

\* the list a course's record holds, as getAll reports it
Completed(ls, c) == CourseProgress_getAll(ls, c).ret

ApiGet ==
    /\ pc = "ready"
    /\ \E c \in CourseIds, l \in LessonIds :
          LET r == CourseProgress_get(localStorage, c, l)
          IN /\ localStorage' = r.ls /\ ret' = r.ret /\ threw' = r.threw
             /\ last' = Op("get", c, l, <<>>, getItem(localStorage, ProgressKey(c)))
    /\ trail' = <<>>
    /\ UNCHANGED <<ThemeFrame, ProgressFrame, DocFrame, MenuFrame,
                   LoadFrame, AnchorFrame>>

ApiGetAll ==
    /\ pc = "ready"
    /\ \E c \in CourseIds :
          LET r == CourseProgress_getAll(localStorage, c)
          IN /\ localStorage' = r.ls /\ ret' = r.ret /\ threw' = r.threw
             /\ last' = Op("getAll", c, "", <<>>, getItem(localStorage, ProgressKey(c)))
    /\ trail' = <<>>
    /\ UNCHANGED <<ThemeFrame, ProgressFrame, DocFrame, MenuFrame,
                   LoadFrame, AnchorFrame>>

\* a mark that left exactly {l} in course c opens a mark-unmark sequence
AfterSet(r, c, l) ==
    IF ~r.threw /\ Completed(r.ls, c) = JArray(<<l>>) THEN <<"marked", c, l>> ELSE <<>>

ApiSet ==
    /\ pc = "ready"
    /\ \E c \in CourseIds, l \in LessonIds :
          LET r == CourseProgress_set(localStorage, c, l)
          IN /\ localStorage' = r.ls /\ ret' = r.ret /\ threw' = r.threw
             /\ trail' = AfterSet(r, c, l)
             /\ last' = Op("set", c, l, <<>>, getItem(localStorage, ProgressKey(c)))
    /\ UNCHANGED <<ThemeFrame, ProgressFrame, DocFrame, MenuFrame,
                   LoadFrame, AnchorFrame>>

ApiUnset ==
    /\ pc = "ready"
    /\ \E c \in CourseIds, l \in LessonIds :
          LET r == CourseProgress_unset(localStorage, c, l)
          IN /\ localStorage' = r.ls /\ ret' = r.ret /\ threw' = r.threw
             /\ trail' = IF trail = <<"marked", c, l>> THEN <<"unmarked", c, l>> ELSE <<>>
             /\ last' = Op("unset", c, l, <<>>, getItem(localStorage, ProgressKey(c)))
    /\ UNCHANGED <<ThemeFrame, ProgressFrame, DocFrame, MenuFrame,
                   LoadFrame, AnchorFrame>>

\* a scroll event at offset y; without the listener nothing runs
Scroll ==
    /\ pc = "ready"
    /\ \E y \in ScrollYs :
          IF scrollBound
          THEN LET r == onScroll(localStorage, marked, lesson, y)
               IN /\ localStorage' = r.ls /\ marked' = r.marked /\ threw' = r.threw
                  /\ setCalls' = IF r.called /\ setCalls < MaxCalls
                                 THEN setCalls + 1 ELSE setCalls
                  /\ trail' = IF r.called
                              THEN AfterSet(r, lesson[1].courseId, lesson[1].lessonId)
                              ELSE <<>>
                  /\ last' = Op("scroll", lesson[1].courseId, lesson[1].lessonId, y,
                                getItem(localStorage, ProgressKey(lesson[1].courseId)))
          ELSE /\ UNCHANGED <<localStorage, marked, setCalls>>
               /\ threw' = FALSE /\ trail' = <<>>
               /\ last' = Op("scroll", "", "", y, None)
    /\ ret' = JUndefined
    /\ UNCHANGED <<ThemeFrame, path, navLinks, lesson, scrollBound, DocFrame, MenuFrame,
                   LoadFrame, AnchorFrame>>

Next ==
    \/ PageInit
    \/ Navigate
    \/ Toggle
    \/ SetTheme
    \/ OsChange
    \/ ApiGet
    \/ ApiGetAll
    \/ ApiSet
    \/ ApiUnset
    \/ Scroll

Spec == Init /\ [][Next]_vars

SpecFresh == InitFresh /\ [][Next]_vars

----------------------------------------------------------------------------
(* updateNavigation on its own, over every bounded list of links *)

NavPaths == {Root, PathA, PathAB, PathAX}

NavLinkSet == { Link(h, cur) : h \in {None} \cup {Some(q) : q \in NavPaths},
                               cur \in BOOLEAN }

NavLinkLists == UNION { [1..n -> NavLinkSet] : n \in 0..MaxLinks }

InitNav ==
    /\ Transient
    /\ readyState = "complete"
    /\ localStorage = EmptyStorage
    /\ hasMatchMedia = FALSE
    /\ osDark = FALSE
    /\ lesson = None
    /\ path \in NavPaths
    /\ navLinks \in NavLinkLists
    /\ dom = Dom(FALSE, FALSE, FALSE, FALSE, FALSE, "absent", "absent")
    /\ bodyText = None
    /\ extLinks = <<>>
    /\ themeBtn = MarkupButton(dom)
    /\ ariaExpanded = None
    /\ menuIcon = None
    /\ innerWidth = NarrowWidth

RunUpdateNavigation ==
    /\ LET nav == updateNavigation(navLinks, path)
       IN navLinks' = nav.links /\ threw' = nav.threw
    /\ last' = Op("updateNavigation", "", "", <<>>, None)
    /\ UNCHANGED <<pc, localStorage, osDark, hasMatchMedia, dataTheme, path, lesson,
                   scrollBound, marked, ret, userChose, setCalls, trail, themeBtn,
                   DocFrame, MenuFrame,
                   LoadFrame, AnchorFrame>>

NextNav == RunUpdateNavigation

SpecNav == InitNav /\ [][NextNav]_vars

----------------------------------------------------------------------------
(* The mobile menu and the keyboard, within one page view *)

Widths == {NarrowWidth, Breakpoint, Breakpoint + 1}

\* every inventory of the menu's three elements and of #main-content; the
\* anchor without href makes init() stop before initKeyboardNav
MenuPages ==
    { [path |-> PathA, nav |-> <<Link(h, FALSE)>>, lesson |-> None,
       dom |-> Dom(TRUE, TRUE, mt, nl, mi, mc, "absent"),
       text |-> None, links |-> <<>>] :
         h \in {None, Some(Root)}, mt \in BOOLEAN, nl \in BOOLEAN, mi \in BOOLEAN,
         mc \in MainContents }

InitMenu ==
    /\ Transient
    /\ readyState = "complete"
    /\ localStorage = EmptyStorage
    /\ hasMatchMedia = FALSE
    /\ osDark = FALSE
    /\ innerWidth \in Widths
    /\ \E page \in MenuPages : Loaded(page)

Menu == MenuState(isOpen, ariaExpanded, menuIcon)

SetMenu(m) ==
    /\ isOpen' = m.isOpen
    /\ ariaExpanded' = m.ariaExpanded
    /\ menuIcon' = m.menuIcon

MenuRest == <<pc, localStorage, osDark, hasMatchMedia, dataTheme, path, navLinks, lesson,
              scrollBound, marked, ret, userChose, setCalls, trail, themeBtn, DocFrame,
              menuBound, keyNavBound, LoadFrame, AnchorFrame>>

\* a click on .mobile-menu-toggle: its own listener, then the document's
ClickMenuToggle ==
    /\ pc = "ready"
    /\ dom.menuToggle
    /\ SetMenu(IF menuBound
               THEN onDocumentClick(dom, MobileMenu_toggle(dom, Menu), "toggle")
               ELSE Menu)
    /\ threw' = FALSE
    /\ last' = Op("click", "", "", "toggle", Some(isOpen))
    /\ UNCHANGED <<MenuRest, activeElement, innerWidth>>

\* a click on a link inside .nav-list: the link's listener, then the document's
ClickMenuLink ==
    /\ pc = "ready"
    /\ dom.navList
    /\ SetMenu(IF menuBound
               THEN onDocumentClick(dom, MobileMenu_close(dom, Menu), "menu")
               ELSE Menu)
    /\ threw' = FALSE
    /\ last' = Op("click", "", "", "link", Some(isOpen))
    /\ UNCHANGED <<MenuRest, activeElement, innerWidth>>

\* a click anywhere else: inside the list but on no link, or outside the menu
ClickElsewhere ==
    /\ pc = "ready"
    /\ \E target \in {"menu", "outside"} :
          /\ target = "menu" => dom.navList
          /\ SetMenu(IF menuBound THEN onDocumentClick(dom, Menu, target) ELSE Menu)
          /\ last' = Op("click", "", "", target, Some(isOpen))
    /\ threw' = FALSE
    /\ UNCHANGED <<MenuRest, activeElement, innerWidth>>

\* the user moves the focus
FocusMove ==
    /\ pc = "ready"
    /\ \E el \in {"body", "toggle", "main"} :
          /\ el = "toggle" => dom.menuToggle
          /\ el = "main" => dom.mainContent = "focusable"
          /\ el # activeElement
          /\ activeElement' = el
          /\ last' = Op("focus", "", "", el, Some(isOpen))
    /\ threw' = FALSE
    /\ UNCHANGED <<MenuRest, isOpen, ariaExpanded, menuIcon, innerWidth>>

\* a keydown event: the document's listeners run in the order init() added
\* them, MobileMenu.init's before initKeyboardNav's
KeyDown ==
    /\ pc = "ready"
    /\ \E key \in KeyNames :
          LET first == IF menuBound THEN onMenuKeydown(dom, Menu, activeElement, key)
                       ELSE [m |-> Menu, focus |-> activeElement]
              second == IF keyNavBound THEN onKeyNavKeydown(dom, first.focus, key)
                        ELSE first.focus
          IN /\ SetMenu(first.m)
             /\ activeElement' = second
             /\ last' = Op("keydown", "", "", key, Some(isOpen))
    /\ threw' = FALSE
    /\ UNCHANGED <<MenuRest, innerWidth>>

\* the window is resized; the listener exists once MobileMenu.init has added it
Resize ==
    /\ \E width \in Widths :
          /\ innerWidth' = width
          /\ SetMenu(IF menuBound THEN onResize(dom, Menu, width) ELSE Menu)
          /\ last' = Op("resize", "", "", width, Some(isOpen))
    /\ threw' = FALSE
    /\ UNCHANGED <<MenuRest, activeElement>>

\* LearnWeb.MobileMenu.open(), close() and toggle()
MenuApi ==
    /\ pc = "ready"
    /\ \E op \in {"open", "close", "toggle"} :
          /\ SetMenu(CASE op = "open" -> MobileMenu_open(dom, Menu)
                        [] op = "close" -> MobileMenu_close(dom, Menu)
                        [] op = "toggle" -> MobileMenu_toggle(dom, Menu))
          /\ last' = Op(op, "", "", <<>>, Some(isOpen))
    /\ threw' = FALSE
    /\ UNCHANGED <<MenuRest, activeElement, innerWidth>>

NextMenu ==
    \/ PageInit
    \/ ClickMenuToggle
    \/ ClickMenuLink
    \/ ClickElsewhere
    \/ FocusMove
    \/ KeyDown
    \/ Resize
    \/ MenuApi

SpecMenu == InitMenu /\ [][NextMenu]_vars

----------------------------------------------------------------------------
(* calculateReadTime on its own, over content texts of chosen word counts *)

\* n words of wl characters each, consecutive words separated by sep
Joined(n, wl, sep) ==
    IF n = 0 THEN <<>>
    ELSE [i \in 1..(n * wl + (n - 1) * Len(sep)) |->
            LET q == (i - 1) % (wl + Len(sep))
            IN IF q < wl THEN "w" ELSE sep[q - wl + 1]]

WordCounts ==
    (0..MaxWords) \cup {wordsPerMinute - 1, wordsPerMinute, wordsPerMinute + 1,
                        2 * wordsPerMinute, 2 * wordsPerMinute + 1}

ReadTexts ==
    { before \o Joined(n, wl, sep) \o after :
        n \in WordCounts, wl \in {1, 2}, sep \in {<<" ">>, <<" ", "\n">>},
        before \in {<<>>, <<"\n", " ">>}, after \in {<<>>, <<" ">>} }

InitRead ==
    /\ Transient
    /\ readyState = "complete"
    /\ localStorage = EmptyStorage
    /\ hasMatchMedia = FALSE
    /\ osDark = FALSE
    /\ innerWidth = NarrowWidth
    /\ \E rt \in ReadTimes, body \in {None} \cup {Some(t) : t \in ReadTexts} :
          Loaded([path |-> PathA, nav |-> <<>>, lesson |-> None,
                  dom |-> Dom(FALSE, FALSE, FALSE, FALSE, FALSE, "absent", rt),
                  text |-> body, links |-> <<>>])

RunCalculateReadTime ==
    /\ readTimeText' = calculateReadTime(dom, bodyText, readTimeText)
    /\ threw' = FALSE
    /\ last' = Op("calculateReadTime", "", "", <<>>, None)
    /\ UNCHANGED <<pc, localStorage, osDark, hasMatchMedia, dataTheme, path, navLinks,
                   lesson, scrollBound, marked, ret, userChose, setCalls, trail, themeBtn,
                   dom, bodyText, extLinks, MenuFrame, LoadFrame, AnchorFrame>>

NextRead == RunCalculateReadTime

SpecRead == InitRead /\ [][NextRead]_vars

----------------------------------------------------------------------------
(* Two pages of the origin on one store: this page, and another page whose *)
(* own document is left out of the state                                    *)

\* the theme toggle is activated in the other page: its script runs
\* ThemeManager.toggle against the shared store and its own document
OtherPageToggle ==
    /\ localStorage' = ThemeManager_toggle(localStorage, hasMatchMedia, osDark).ls
    /\ ret' = JUndefined /\ threw' = FALSE /\ trail' = <<>>
    /\ last' = Op("otherToggle", "", "", <<>>, getItem(localStorage, STORAGE_KEY))
    /\ UNCHANGED <<pc, osDark, hasMatchMedia, dataTheme, userChose, themeBtn,
                   ProgressFrame, DocFrame, MenuFrame,
                   LoadFrame, AnchorFrame>>

NextShared ==
    \/ PageInit
    \/ Navigate
    \/ Toggle
    \/ SetTheme
    \/ OsChange
    \/ OtherPageToggle

SpecShared == InitFresh /\ [][NextShared]_vars

----------------------------------------------------------------------------
(* The script of src/js/main.js alone, whose CourseProgress has no unset *)

NextMain ==
    \/ PageInit
    \/ Navigate
    \/ Toggle
    \/ SetTheme
    \/ OsChange
    \/ ApiGet
    \/ ApiGetAll
    \/ ApiSet
    \/ Scroll

SpecMain == InitFresh /\ [][NextMain]_vars

----------------------------------------------------------------------------
(* Two pages of the origin marking lessons on one store *)

\* CourseProgress.set runs to completion in the other page: its scroll
\* listener, or a call of LearnWeb.CourseProgress.set there
OtherPageSet ==
    /\ \E c \in CourseIds, l \in LessonIds :
          /\ localStorage' = CourseProgress_set(localStorage, c, l).ls
          /\ last' = Op("otherSet", c, l, <<>>, getItem(localStorage, ProgressKey(c)))
    /\ trail' = <<>>
    /\ UNCHANGED <<ThemeFrame, ProgressFrame, DocFrame, MenuFrame, LoadFrame, AnchorFrame,
                   ret, threw>>

\* no theme stored and no media query: the theme plays no part here
InitPages ==
    /\ Init
    /\ ~hasMatchMedia
    /\ STORAGE_KEY \notin DOMAIN localStorage

NextPages ==
    \/ PageInit
    \/ ApiSet
    \/ Scroll
    \/ OtherPageSet

SpecPages == InitPages /\ [][NextPages]_vars

----------------------------------------------------------------------------
(* One page load: the document's readiness and the execution of main.js *)

\* main.js may execute while the document is parsed (a blocking script),
\* after parsing (deferred) or after everything has loaded
InitLoad == Opened /\ readyState \in {"loading", "interactive", "complete"}

\* parsing ends: readyState becomes "interactive" and DOMContentLoaded is
\* dispatched to the listener main.js left, if it left one
DOMContentLoaded ==
    /\ readyState = "loading"
    /\ readyState' = "interactive"
    /\ IF script.listening THEN init ELSE UNCHANGED PageState
    /\ UNCHANGED script

\* the load event: readyState becomes "complete"
WindowLoad ==
    /\ readyState = "interactive"
    /\ readyState' = "complete"
    /\ UNCHANGED <<script, PageState>>

NextLoad ==
    \/ ExecuteScript
    \/ DOMContentLoaded
    \/ WindowLoad

SpecLoad == InitLoad /\ [][NextLoad]_vars

----------------------------------------------------------------------------
(* initSmoothScroll: an href and an id are sequences of characters *)

Digits == {"0", "1", "2", "3", "4", "5", "6", "7", "8", "9"}

RECURSIVE Join(_)
Join(t) == IF t = <<>> THEN "" ELSE Head(t) \o Join(Tail(t))

\* the ids of the document's elements; none of the elements has a class
ElementIds == {<<"a">>, <<"c">>, <<"1", "a">>, <<"a", ".", "b">>}

\* the anchors a page may carry: the bare "#", fragments naming each element,
\* a fragment naming none, and a link to another page
Hrefs == {<<"#">>, <<"#", "b">>, <<"/", "a">>} \cup {<<"#">> \o id : id \in ElementIds}

FirstDot(t) ==
    IF \E i \in 1..Len(t) : t[i] = "."
    THEN CHOOSE i \in 1..Len(t) : t[i] = "." /\ \A j \in 1..(i - 1) : t[j] # "."
    ELSE Len(t) + 1

\* name(.class)*, as the selector parser reads what follows "#": each name
\* is a CSS identifier, not empty and not starting with a digit
RECURSIVE ValidCompound(_)
ValidCompound(t) ==
    LET k == FirstDot(t)
        ident == SubSeq(t, 1, k - 1)
    IN /\ ident # <<>> /\ ident[1] \notin Digits
       /\ (k > Len(t) \/ ValidCompound(SubSeq(t, k + 1, Len(t))))

\* document.querySelector(href) for an href "#...": the text is parsed as a
\* selector, which throws SyntaxError where it is not one, and "." starts a
\* class, which no element has
querySelector(selector, ids) ==
    LET rest == Tail(selector)
        k == FirstDot(rest)
        name == SubSeq(rest, 1, k - 1)
    IN IF ~ValidCompound(rest) THEN [threw |-> TRUE, el |-> None]
       ELSE [threw |-> FALSE,
             el |-> IF k > Len(rest) /\ name \in ids THEN Some(name) ELSE None]

\* the anchors initSmoothScroll gives a click listener: a[href^="#"]
initSmoothScroll(href) == startsWith(href, <<"#">>)

\* a click on an anchor: the listener of initSmoothScroll, if the anchor has one
onAnchorClick(href, bound, ids, tab, focus) ==
    LET noop == [prevented |-> FALSE, threw |-> FALSE, tabindex |-> tab, focus |-> focus]
        q == querySelector(href, ids)
    IN IF ~bound \/ ~initSmoothScroll(href) THEN noop
       ELSE IF href = <<"#">> THEN noop
       ELSE IF q.threw THEN [noop EXCEPT !.threw = TRUE]
       ELSE IF q.el = None THEN noop
       ELSE [prevented |-> TRUE, threw |-> FALSE,
             tabindex |-> tab \cup {Join(q.el[1])}, focus |-> Join(q.el[1])]

\* the user activates an anchor of the page body; the click also reaches the
\* document's listener of MobileMenu.init
ClickAnchor ==
    /\ pc = "ready"
    /\ \E href \in Hrefs :
          LET r == onAnchorClick(href, smoothBound, ElementIds, tabindex, activeElement)
          IN /\ defaultPrevented' = r.prevented
             /\ threw' = r.threw
             /\ tabindex' = r.tabindex
             /\ activeElement' = r.focus
             /\ last' = Op("anchor", "", "", href, Some(activeElement))
    /\ SetMenu(IF menuBound THEN onDocumentClick(dom, Menu, "outside") ELSE Menu)
    /\ UNCHANGED <<ThemeFrame, localStorage, ProgressFrame, DocFrame, LoadFrame, ret, trail,
                   menuBound, keyNavBound, innerWidth, smoothBound>>

NextScroll ==
    \/ PageInit
    \/ ClickAnchor
    \/ ClickMenuToggle

SpecScroll == InitFresh /\ [][NextScroll]_vars

----------------------------------------------------------------------------
(* Claims *)

StoredTheme == getItem(localStorage, STORAGE_KEY)

\* C1: an OS-preference-change notification that arrives after initialization
\* and before any explicit user choice makes the persisted theme and the
\* data-theme attribute match the OS preference.
C1_OsChangeFollowed ==
    (last.op = "osChange" /\ pc = "ready" /\ ~userChose)
        => (StoredTheme = Some(OsTheme(osDark)) /\ dataTheme = Some(OsTheme(osDark)))

\* C2: once the user has explicitly set a theme, no OS-preference-change
\* notification changes the persisted theme or the data-theme attribute.
C2_UserThemeKept ==
    [][(userChose /\ last'.op = "osChange")
          => (getItem(localStorage', STORAGE_KEY) = StoredTheme /\ dataTheme' = dataTheme)]_vars

C2_Witness ==
    /\ userChose
    /\ pc = "ready"
    /\ last.op = "osChange"
    /\ dataTheme # Some(OsTheme(osDark))
    /\ StoredTheme = dataTheme

\* C3: from any state reachable after initialization, toggling twice in a row
\* returns the persisted theme and the data-theme attribute to their values.
C3_ToggleTwiceRestores ==
    pc = "ready" =>
        LET t1 == ThemeManager_toggle(localStorage, hasMatchMedia, osDark)
            t2 == ThemeManager_toggle(t1.ls, hasMatchMedia, osDark)
        IN getItem(t2.ls, STORAGE_KEY) = StoredTheme /\ t2.attr = dataTheme

\* C4: after initialization the persisted theme and the data-theme attribute
\* are one of light and dark, whatever the store held at page load.
C4_ThemeEnumerated ==
    pc = "ready" =>
        /\ StoredTheme \in {Some(Light), Some(Dark)}
        /\ dataTheme \in {Some(Light), Some(Dark)}

\* C5: the theme resolved at initialization is the persisted value if there
\* is one (light or dark), otherwise dark when the OS prefers dark, otherwise
\* light (also when matchMedia is unavailable).
C5_InitialResolution ==
    (last.op = "init" /\ last.pre \in {None, Some(Light), Some(Dark)})
        => dataTheme = Some(IF last.pre # None THEN last.pre[1]
                            ELSE IF hasMatchMedia /\ osDark THEN Dark
                            ELSE Light)

C5_Witness ==
    /\ last.op = "init"
    /\ last.pre = None
    /\ hasMatchMedia /\ osDark
    /\ dataTheme = Some(Dark)

\* a stored record that is not an object with a lessons array
NoData(opt) ==
    \/ opt = None
    \/ LET parsed == JSONparse(opt[1])
       IN ~parsed.ok \/ LessonsThrows(parsed.v) \/ NotArray(LessonsOf(parsed.v))

\* C6: on an absent or malformed record, get, getAll and set complete without
\* raising an error and treat the record as holding no completed lessons.
C6_MalformedIsNoData ==
    (last.op \in {"get", "getAll", "set"} /\ NoData(last.pre)) =>
        /\ ~threw
        /\ last.op = "get" => ret \in {JBool(FALSE), JUndefined, JNull}
        /\ last.op = "getAll" => ret = JArray(<<>>)
        /\ last.op = "set" => Completed(localStorage, last.c) = JArray(<<last.l>>)

\* C7: in one page view the scroll handler invokes CourseProgress.set at most
\* once: the first scroll event within the threshold marks the lesson complete
\* and sets the latch.
C7_ScrollMarksOnce ==
    /\ setCalls <= 1
    /\ (last.op = "scroll" /\ scrollBound /\ AtBottom(last.arg)) =>
          /\ marked
          /\ CourseProgress_get(localStorage, last.c, last.l).ret = JBool(TRUE)

NoDuplicates(items) ==
    \A i, j \in 1..Len(items) : items[i] = items[j] => i = j

\* the lessons list of a stored text (empty when the text holds none)
ItemsOf(opt) ==
    IF NoData(opt) THEN <<>> ELSE LessonsOf(JSONparse(opt[1]).v).items

\* C8: starting from empty storage, every lesson identifier appears at most
\* once in each course's persisted lessons list.
C8_NoDuplicateLessons ==
    \A c \in CourseIds : NoDuplicates(ItemsOf(getItem(localStorage, ProgressKey(c))))

C8_Witness ==
    /\ last.op = "set"
    /\ Includes(ItemsOf(last.pre), last.l)
    /\ Len(ItemsOf(getItem(localStorage, ProgressKey(last.c)))) = 2

C10_MarkersExact ==
    last.op = "updateNavigation" =>
        \A i \in 1..Len(navLinks) :
            navLinks[i].href # None =>
                (navLinks[i].current <=>
                    \/ navLinks[i].href[1] = path
                    \/ /\ startsWith(path, navLinks[i].href[1])
                       /\ navLinks[i].href[1] # Root)

\* C11: once the menu has been opened, a resize to a width above the
\* breakpoint leaves it closed with aria-expanded="false" on the toggle, and a
\* closed menu stays closed, its attribute as it was, under any resize.
C11_ResizeCloses ==
    [][last'.op = "resize" =>
          /\ (isOpen /\ innerWidth' > Breakpoint)
                => (~isOpen' /\ ariaExpanded' = Some(<<"false">>))
          /\ ~isOpen => (~isOpen' /\ ariaExpanded' = ariaExpanded)]_vars

C11_Witness ==
    /\ last.op = "resize"
    /\ last.pre = Some(TRUE)
    /\ innerWidth > Breakpoint
    /\ ~isOpen
    /\ ariaExpanded = Some(<<"false">>)

\* C12: Escape pressed while the menu is open closes the menu, and when all
\* keydown listeners have run, in registration order, the focus is on the
\* menu toggle button, also where #main-content is focusable.
C12_EscapeFocusesToggle ==
    (last.op = "keydown" /\ last.arg = "Escape" /\ last.pre = Some(TRUE))
        => (~isOpen /\ activeElement = "toggle")

\* the words of a text: its maximal runs of characters that are not whitespace
WordCount(text) ==
    Cardinality({i \in 1..Len(text) :
                    /\ text[i] \notin Whitespace
                    /\ (i = 1 \/ text[i - 1] \in Whitespace)})

\* C13: the reading time shown is ceiling(word count of the content / 200)
\* for every word count, 0 for an empty content region and 2 for 400 words.
C13_ReadingTimeIsCeiling ==
    (last.op = "calculateReadTime" /\ dom.readTime = "text" /\ bodyText # None)
        => readTimeText = Some(MinRead(ceil(WordCount(bodyText[1]), wordsPerMinute)))

\* C14: no missing element or attribute halts the startup sequence: init()
\* ends without an exception and the initializers after the skipped feature
\* (keyboard navigation, progress tracking, reading time) have all run.
C14_StartupCompletes ==
    last.op = "init" =>
        /\ ~threw
        /\ keyNavBound
        /\ scrollBound = TracksProgress(lesson)
        /\ readTimeText = calculateReadTime(dom, bodyText, None)

\* C15: where the theme toggle and its icon exist, after every theme
\* transition they name the target state: "Switch to light mode"/light_mode
\* while the theme is dark, "Switch to dark mode"/dark_mode while it is light.
C15_ButtonNamesTarget ==
    (pc = "ready" /\ dom.themeToggle /\ dom.themeIcon) =>
        /\ dataTheme = Some(Dark) =>
              themeBtn = [label |-> Some(SwitchToLight), icon |-> Some(LightModeIcon)]
        /\ dataTheme = Some(Light) =>
              themeBtn = [label |-> Some(SwitchToDark), icon |-> Some(DarkModeIcon)]

C15_Witness ==
    /\ last.op = "toggle"
    /\ dom.themeToggle /\ dom.themeIcon
    /\ dataTheme = Some(Dark)
    /\ themeBtn.label = Some(SwitchToLight)
    /\ themeBtn.icon = Some(LightModeIcon)

\* an anchor the script has not touched
Untouched(link) == link.target = None /\ link.rel = None /\ link.sr = <<>>

\* C16: after initialization every link whose href begins with http and
\* whose host is not the page's host has target="_blank",
\* rel="noopener noreferrer" and one appended " (opens in new tab)" text, and
\* every link on the page's host is as the markup had it.
C16_ExternalLinksAnnotated ==
    pc = "ready" =>
        \A i \in 1..Len(extLinks) :
            LET link == extLinks[i] IN
            /\ (startsWith(link.href, Http) /\ hostname(link.href) # Host) =>
                  /\ link.target = Some(<<"_blank">>)
                  /\ link.rel = Some(<<"noopener noreferrer">>)
                  /\ link.sr = <<OpensInNewTab>>
            /\ hostname(link.href) = Host => Untouched(link)

\* the positions of the links that carry aria-current="page"
MarkedLinks(links) == {i \in 1..Len(links) : links[i].current}

\* C17: running updateNavigation again on the same page, with the same
\* current path, leaves the set of links that carry the marker unchanged.
C17_HighlightIdempotent ==
    last.op = "updateNavigation" =>
        MarkedLinks(updateNavigation(navLinks, path).links) = MarkedLinks(navLinks)

C17_Witness ==
    /\ last.op = "updateNavigation"
    /\ ~threw
    /\ Len(navLinks) = 2
    /\ MarkedLinks(navLinks) = {2}

\* C18: when init() has run, learnweb_theme is in the store and holds the
\* theme init resolved and displays, also when the user never touched the
\* control: without a stored value that is the OS preference, else light.
C18_ThemePersistedByInit ==
    last.op = "init" =>
        /\ STORAGE_KEY \in DOMAIN localStorage
        /\ StoredTheme = dataTheme
        /\ ~Truthy(last.pre) => StoredTheme = Some(OsTheme(hasMatchMedia /\ osDark))

C18_Witness ==
    /\ last.op = "init"
    /\ last.pre = None
    /\ ~userChose
    /\ StoredTheme = Some(OsTheme(osDark))
    /\ osDark

\* C19: in a single page that is the only writer of the store, from
\* initialization on the data-theme attribute equals the stored
\* learnweb_theme in every state, under any toggle, setTheme and OS change.
C19_AttributeIsStored ==
    pc = "ready" => dataTheme = StoredTheme

C19_Witness ==
    /\ pc = "ready"
    /\ last.op = "osChange"
    /\ userChose
    /\ dataTheme = Some(Dark)
    /\ StoredTheme = Some(Dark)
    /\ ~osDark

\* C20: every activation of the theme toggle flips the theme the page
\* displays, light to dark or dark to light, also when another page of the
\* origin has changed the stored theme since this page last set it.
C20_ToggleFlipsDisplay ==
    [][last'.op = "toggle" =>
          \/ dataTheme = Some(Light) /\ dataTheme' = Some(Dark)
          \/ dataTheme = Some(Dark) /\ dataTheme' = Some(Light)]_vars

\* the page has the three elements open() and close() need
MenuComplete == dom.menuToggle /\ dom.navList /\ dom.menuIcon

\* C21: on a page with the menu's elements, a press of the toggle button
\* flips the menu once all click listeners of that click have run: pressed
\* while closed the menu ends open, pressed while open it ends closed.
C21_TogglePressFlips ==
    (last.op = "click" /\ last.arg = "toggle" /\ MenuComplete)
        => isOpen = ~last.pre[1]

C21_Witness ==
    /\ last.op = "click" /\ last.arg = "toggle"
    /\ last.pre = Some(FALSE)
    /\ isOpen
    /\ menuBound

\* C22: with the menu open, a click on a link inside the menu, or a click
\* outside both the toggle and the list, leaves the menu closed; a click
\* inside the list that is on no link leaves it open.
C22_ClicksWhileOpen ==
    (last.op = "click" /\ last.pre = Some(TRUE)) =>
        /\ last.arg \in {"link", "outside"} => ~isOpen
        /\ last.arg = "menu" => isOpen

C22_Witness ==
    /\ last.op = "click" /\ last.arg = "menu"
    /\ last.pre = Some(TRUE)
    /\ isOpen

\* C23: from the closed markup on, in every state reached by toggle, link,
\* Escape, outside-click and resize events the three indicators agree: the
\* list has is-open exactly when aria-expanded is "true" and exactly when
\* the icon reads "close".
C23_IndicatorsAgree ==
    /\ isOpen <=> ariaExpanded = Some(<<"true">>)
    /\ isOpen <=> menuIcon = Some(<<"close">>)

C23_Witness ==
    /\ last.op = "keydown" /\ last.arg = "Tab"
    /\ isOpen
    /\ ariaExpanded = Some(<<"true">>)
    /\ menuIcon = Some(<<"close">>)

\* the lessons a store holds for a course
LessonSet(ls, c) ==
    LET items == ItemsOf(getItem(ls, ProgressKey(c)))
    IN {items[i] : i \in 1..Len(items)}

\* this step is a call of CourseProgress.set by this page: through the API,
\* or by the scroll listener with the latch unset and the threshold reached
MarksNow ==
    \/ last'.op = "set"
    \/ last'.op = "scroll" /\ scrollBound /\ ~marked /\ AtBottom(last'.arg)

C25_CorruptRecordReplaced ==
    (last.op = "set" /\ last.pre \in {Some(NotJsonText), Some(EmptyText)}) =>
        /\ ~threw
        /\ getItem(localStorage, ProgressKey(last.c)) = Some(JSONstringify(<<last.l>>))

C25_Witness ==
    /\ last.op = "set"
    /\ last.pre = Some(NotJsonText)
    /\ getItem(localStorage, ProgressKey(last.c)) = Some(JSONstringify(<<last.l>>))

\* C26: when this page and another page of the origin mark different
\* lessons of one course, one handler after the other in either order, both
\* lessons are in the course's stored set afterwards.
C26_NoCompletionLost ==
    [][(/\ \/ last.op = "otherSet" /\ MarksNow
           \/ last.op = "set" /\ last'.op = "otherSet"
        /\ last.c = last'.c
        /\ last.l # last'.l)
          => {last.l, last'.l} \subseteq LessonSet(localStorage', last'.c)]_vars

\* C27: get and getAll never write to the store, so no read creates a
\* course's record.
C27_ReadsDoNotWrite ==
    [][last'.op \in {"get", "getAll"} => localStorage' = localStorage]_vars

C27_Witness ==
    /\ last.op = "getAll"
    /\ ret = JArray(<<>>)
    /\ last.pre = None
    /\ ProgressKey(last.c) \notin DOMAIN localStorage

\* C28: marking a lesson of course c complete changes no entry other than
\* learnweb_progress_c, and no theme transition changes a progress record.
C28_WritesStayInTheirEntry ==
    [][/\ MarksNow =>
             \A k \in Keys \ {ProgressKey(last'.c)} :
                 getItem(localStorage', k) = getItem(localStorage, k)
       /\ last'.op \in {"init", "toggle", "setTheme", "osChange"} =>
             \A c \in CourseIds :
                 getItem(localStorage', ProgressKey(c)) = getItem(localStorage, ProgressKey(c))]_vars

C28_Witness ==
    /\ last.op = "set"
    /\ getItem(localStorage, ProgressKey(last.c)) # last.pre
    /\ StoredTheme = Some(Dark)
    /\ \E c \in CourseIds \ {last.c} : LessonSet(localStorage, c) # {}

\* C29: marking complete a lesson that is already in the course's list
\* leaves the record as it is, also when the scroll listener does it on a
\* repeated view of the completed lesson.
C29_RepeatedMarkKeepsRecord ==
    (/\ last.op \in {"set", "scroll"}
     /\ \E i \in 1..Len(ItemsOf(last.pre)) : ItemsOf(last.pre)[i] = last.l)
        => (~threw /\ getItem(localStorage, ProgressKey(last.c)) = last.pre)

C29_Witness ==
    /\ last.op = "scroll"
    /\ AtBottom(last.arg)
    /\ marked
    /\ setCalls = 1
    /\ LessonSet(localStorage, last.c) = LessonIds
    /\ getItem(localStorage, ProgressKey(last.c)) = last.pre

\* C30: a scroll event more than 100 units short of the document height
\* writes nothing and leaves the latch as it was, and a scroll event at or
\* past the threshold with the latch unset marks the lesson complete.
C30_ThresholdBoundary ==
    [][(last'.op = "scroll" /\ scrollBound) =>
          /\ ~AtBottom(last'.arg) => (localStorage' = localStorage /\ marked' = marked)
          /\ (AtBottom(last'.arg) /\ ~marked) =>
                /\ marked'
                /\ CourseProgress_get(localStorage', last'.c, last'.l).ret = JBool(TRUE)]_vars

\* C33: a resize event with the viewport width at or below 768 never changes
\* the menu: an open menu stays open, a closed one closed, and the attribute
\* and the icon stay as they were.
C33_NarrowResizeKeepsMenu ==
    [][(last'.op = "resize" /\ innerWidth' <= Breakpoint)
          => (isOpen' = isOpen /\ ariaExpanded' = ariaExpanded /\ menuIcon' = menuIcon)]_vars

C33_Witness ==
    /\ last.op = "resize"
    /\ last.pre = Some(TRUE)
    /\ innerWidth = Breakpoint
    /\ isOpen

\* C34: where the toggle button, the nav list or the menu icon is missing,
\* open() and close() change none of the is-open class, aria-expanded and the
\* icon text, so no press of the toggle ever opens the menu there.
C34_AllOrNothing ==
    ~MenuComplete =>
        /\ ~isOpen
        /\ ariaExpanded = MarkupMenu(dom).ariaExpanded
        /\ menuIcon = MarkupMenu(dom).menuIcon

C34_Witness ==
    /\ last.op = "click" /\ last.arg = "toggle"
    /\ menuBound
    /\ ~dom.menuIcon
    /\ ~isOpen
    /\ ariaExpanded = Some(<<"false">>)

\* C32: init() runs exactly once per page load: never before main.js has
\* executed, never twice, and once the script has executed and the document is
\* no longer loading it has run once, whether it was called at once or from
\* DOMContentLoaded; so each listener it registers is registered once.
C32_InitRunsOnce ==
    /\ initRuns <= 1
    /\ ~script.executed => initRuns = 0
    /\ (script.executed /\ readyState = "loading") => (initRuns = 0 /\ script.listening)
    /\ (script.executed /\ readyState # "loading") => (initRuns = 1 /\ pc = "ready")

C32_Witness ==
    /\ script.executed
    /\ script.listening
    /\ readyState = "complete"
    /\ initRuns = 1
    /\ last.op = "init"

\* C31: activating a same-page anchor whose href is the bare "#" or names no
\* element of the document prevents nothing and leaves focus and tabindex as
\* they were; activating one that names an element of the document prevents
\* the default jump, gives that element tabindex -1 and moves focus to it.
C31_AnchorActivation ==
    [][(last'.op = "anchor" /\ startsWith(last'.arg, <<"#">>)) =>
          LET id == Tail(last'.arg)
          IN IF id \in ElementIds
             THEN /\ defaultPrevented'
                  /\ Join(id) \in tabindex'
                  /\ activeElement' = Join(id)
             ELSE /\ ~defaultPrevented'
                  /\ tabindex' = tabindex
                  /\ activeElement' = activeElement]_vars

====
